---- MODULE Spec2Model ----
(***************************************************************************)
(* Model of scripts/check-story-book-file-exists.py: one invocation of     *)
(* main() over an argument list and a filesystem.                          *)
(*                                                                         *)
(* Strings are TLA+ strings (Len, SubSeq and \o act on their characters).  *)
(* Python's sys.argv[k] is argv[k + 1] here (TLA+ sequences start at 1).   *)
(***************************************************************************)
EXTENDS Naturals, Sequences, FiniteSets

VARIABLES
    argv,        \* sys.argv: the program name followed by the arguments
    fs,          \* the filesystem: what each path names (symlinks by target)
    pc,          \* position of main(): "check_argc", "check_suffix", "isfile", "done"
    file_path,   \* local file_path (line 11); "" until assigned
    story_path,  \* local story_path (line 17); "" until assigned
    stdout,      \* the writes made to standard output, one entry per print call
    probes,      \* the paths handed to os.path.isfile, in order
    exit_code    \* <<>> while running, <<c>> once main has returned c

vars == <<argv, fs, pc, file_path, story_path, stdout, probes, exit_code>>

-----------------------------------------------------------------------------
(* Bounds of the input space *)

MaxPrefixLen == 2

\* a letter, the path separator and a newline (legal in a POSIX file name)
PrefixChars == {"a", "/", "\n"}

RECURSIVE StringsUpTo(_)
StringsUpTo(n) ==
    IF n = 0 THEN {""}
    ELSE LET S == StringsUpTo(n - 1)
         IN  S \cup {s \o c : s \in S, c \in PrefixChars}

Suffixes ==
    {"", "a", ".md", ".ts", "tsx", ".tsx", "xx.tsx", ".TSX", ".Tsx", ".tsX",
     ".stories.tsx", "stories.tsx", ".stories.stories.tsx", ".STORIES.tsx"}

Scenarios ==
    {"Button.stories.tsx", "Button.tsx", "README.md", "components/Card.tsx"}

Paths == {p \o s : p \in StringsUpTo(MaxPrefixLen), s \in Suffixes} \cup Scenarios

Prog == "check-story-book-file-exists.py"

ExtraArgs == {<<>>, <<"Other.tsx">>}

ArgvSet == {<<>>, <<Prog>>} \cup {<<Prog, p>> \o t : p \in Paths, t \in ExtraArgs}

\* What a path can name.  A symbolic link is described by what it resolves to.
Kinds == {"none", "file", "dir", "link_file", "link_dir", "link_dangling"}

-----------------------------------------------------------------------------
(* String helpers: str.endswith, slicing, os.path.basename, os.path.isfile *)

\* s.endswith(suffix)
EndsWith(s, suffix) ==
    /\ Len(s) >= Len(suffix)
    /\ SubSeq(s, Len(s) - Len(suffix) + 1, Len(s)) = suffix

\* s[:-n] for n > 0: everything but the last n characters ("" when s is shorter)
DropLast(s, n) == SubSeq(s, 1, IF Len(s) > n THEN Len(s) - n ELSE 0)

StoriesSuffix == ".stories.tsx"

TsxSuffix == ".tsx"

StripLen == 4

IsStoryFile_Never(p) == FALSE

\* line 13: file_path.endswith(".stories.tsx")
IsStoryFile(p) == EndsWith(p, StoriesSuffix)

IsComponentFile_NoDot(p) == EndsWith(p, "tsx")

IsComponentFile_AnyCase(p) == EndsWith(p, ".tsx") \/ EndsWith(p, ".TSX")

\* line 16: file_path.endswith(".tsx")
IsComponentFile(p) == EndsWith(p, TsxSuffix)

StoryPathOf_Strip3(p) == DropLast(p, 3) \o StoriesSuffix

\* line 17: file_path[:-4] + ".stories.tsx"
StoryPathOf(p) == DropLast(p, StripLen) \o StoriesSuffix

\* posixpath.basename: the part after the last "/" (the whole path if none)
Basename(p) ==
    LET slashes == {i \in 1..Len(p) : SubSeq(p, i, i) = "/"}
        last == IF slashes = {} THEN 0
                ELSE CHOOSE i \in slashes : \A j \in slashes : j <= i
    IN  SubSeq(p, last + 1, Len(p))

KindOf(f, p) == IF p \in DOMAIN f THEN f[p] ELSE "none"

IsFile_Exists(f, p) == KindOf(f, p) \in {"file", "dir", "link_file", "link_dir"}

IsFile_NoFollow(f, p) == KindOf(f, p) = "file"

\* os.path.isfile: stat() follows symbolic links; True only for a regular file
IsFile(f, p) == KindOf(f, p) \in {"file", "link_file"}

UsageLine == "Usage: check-story-book-file-exists.py <file_path>"

\* print(text): one write of the text and the line terminator
PrintLine(out, text) == Append(out, text \o "\n")

\* The paths whose kind the filesystem of a run records.
FsNames(a) ==
    IF Len(a) >= 2 THEN {a[2], StoryPathOf(a[2])} ELSE {"Button.stories.tsx"}

-----------------------------------------------------------------------------
(* The state machine *)

Init ==
    /\ argv \in ArgvSet
    /\ fs \in [FsNames(argv) -> Kinds]
    /\ pc = "check_argc"
    /\ file_path = ""
    /\ story_path = ""
    /\ stdout = <<>>
    /\ probes = <<>>
    /\ exit_code = <<>>

UsageError_Silent ==
    /\ pc = "check_argc"
    /\ Len(argv) < 2
    /\ exit_code' = <<1>>
    /\ pc' = "done"
    /\ UNCHANGED <<argv, fs, file_path, story_path, probes, stdout>>

\* lines 7-9
UsageError ==
    /\ pc = "check_argc"
    /\ Len(argv) < 2
    /\ stdout' = PrintLine(stdout, UsageLine)
    /\ exit_code' = <<1>>
    /\ pc' = "done"
    /\ UNCHANGED <<argv, fs, file_path, story_path, probes>>

\* lines 7, 11
ReadPath ==
    /\ pc = "check_argc"
    /\ Len(argv) >= 2
    /\ file_path' = argv[2]
    /\ pc' = "check_suffix"
    /\ UNCHANGED <<argv, fs, story_path, stdout, probes, exit_code>>

\* lines 13-14
StoryFileReturn ==
    /\ pc = "check_suffix"
    /\ IsStoryFile(file_path)
    /\ exit_code' = <<0>>
    /\ pc' = "done"
    /\ UNCHANGED <<argv, fs, file_path, story_path, stdout, probes>>

\* lines 13, 16-17
DeriveStoryPath ==
    /\ pc = "check_suffix"
    /\ ~IsStoryFile(file_path)
    /\ IsComponentFile(file_path)
    /\ story_path' = StoryPathOf(file_path)
    /\ pc' = "isfile"
    /\ UNCHANGED <<argv, fs, file_path, stdout, probes, exit_code>>

\* lines 13, 16, 23
NotApplicableReturn ==
    /\ pc = "check_suffix"
    /\ ~IsStoryFile(file_path)
    /\ ~IsComponentFile(file_path)
    /\ exit_code' = <<0>>
    /\ pc' = "done"
    /\ UNCHANGED <<argv, fs, file_path, story_path, stdout, probes>>

\* lines 18-19
FoundReturn ==
    /\ pc = "isfile"
    /\ probes' = Append(probes, story_path)
    /\ IsFile(fs, story_path)
    /\ exit_code' = <<0>>
    /\ pc' = "done"
    /\ UNCHANGED <<argv, fs, file_path, story_path, stdout>>

NotFoundReturn_FullPath ==
    /\ pc = "isfile"
    /\ probes' = Append(probes, story_path)
    /\ ~IsFile(fs, story_path)
    /\ stdout' = PrintLine(stdout, "not found: " \o story_path)
    /\ exit_code' = <<1>>
    /\ pc' = "done"
    /\ UNCHANGED <<argv, fs, file_path, story_path>>

NotFoundReturn_Code2 ==
    /\ pc = "isfile"
    /\ probes' = Append(probes, story_path)
    /\ ~IsFile(fs, story_path)
    /\ stdout' = PrintLine(stdout, "not found: " \o Basename(story_path))
    /\ exit_code' = <<2>>
    /\ pc' = "done"
    /\ UNCHANGED <<argv, fs, file_path, story_path>>

NotFoundReturn_CreatesStory ==
    /\ pc = "isfile"
    /\ probes' = Append(probes, story_path)
    /\ ~IsFile(fs, story_path)
    /\ stdout' = PrintLine(stdout, "not found: " \o Basename(story_path))
    /\ fs' = [fs EXCEPT ![story_path] = "file"]
    /\ exit_code' = <<1>>
    /\ pc' = "done"
    /\ UNCHANGED <<argv, file_path, story_path>>

\* lines 18, 20-21
NotFoundReturn ==
    /\ pc = "isfile"
    /\ probes' = Append(probes, story_path)
    /\ ~IsFile(fs, story_path)
    /\ stdout' = PrintLine(stdout, "not found: " \o Basename(story_path))
    /\ exit_code' = <<1>>
    /\ pc' = "done"
    /\ UNCHANGED <<argv, fs, file_path, story_path>>

Next ==
    \/ UsageError
    \/ ReadPath
    \/ StoryFileReturn
    \/ DeriveStoryPath
    \/ NotApplicableReturn
    \/ FoundReturn
    \/ NotFoundReturn

Spec == Init /\ [][Next]_vars

\* main() is straight-line code with no blocking call: a step that can be
\* taken is taken.
LiveSpec == Spec /\ WF_vars(Next)

-----------------------------------------------------------------------------
(* Vocabulary of the properties, stated on what a caller observes: the     *)
(* argument list, the filesystem, the exit code and standard output.       *)

Done == pc = "done"

HasPathArg == Len(argv) >= 2

\* the path argument, sys.argv[1]
PathArg == argv[2]

LastChars(s, n) == SubSeq(s, Len(s) - n + 1, Len(s))

EndsTsx(s) == Len(s) >= 4 /\ LastChars(s, 4) = ".tsx"

EndsStories(s) == Len(s) >= 12 /\ LastChars(s, 12) = ".stories.tsx"

\* a component file: ends with .tsx but not with .stories.tsx
IsComponentArg == HasPathArg /\ EndsTsx(PathArg) /\ ~EndsStories(PathArg)

\* the derived story path: the argument minus its last 4 characters, plus .stories.tsx
DerivedPath == SubSeq(PathArg, 1, Len(PathArg) - 4) \o ".stories.tsx"

\* a regular file exists at p (directly, or through a symbolic link)
RegularFileAt(p) == p \in DOMAIN fs /\ fs[p] \in {"file", "link_file"}

CountOf(s, c) == Cardinality({i \in 1..Len(s) : SubSeq(s, i, i) = c})

RECURSIVE Concat(_)
Concat(ws) == IF ws = <<>> THEN "" ELSE Head(ws) \o Concat(Tail(ws))

\* everything written to standard output, as one text
OutputText == Concat(stdout)

\* the number of lines on standard output
LineCount == CountOf(OutputText, "\n")

NoOutput == OutputText = ""

StartsWith(s, prefix) == Len(s) >= Len(prefix) /\ SubSeq(s, 1, Len(prefix)) = prefix

\* b is the base name of p: p is d \o b, b holds no separator, and d is empty
\* or ends with a separator
IsBaseNameOf(b, p) ==
    /\ Len(b) <= Len(p)
    /\ LastChars(p, Len(b)) = b
    /\ CountOf(b, "/") = 0
    /\ Len(b) < Len(p) => SubSeq(p, Len(p) - Len(b), Len(p) - Len(b)) = "/"

\* the suffixes of p, candidates for its base name
TailsOf(p) == {LastChars(p, n) : n \in 0..Len(p)}

\* standard output is exactly "not found: " + base name of the derived path + newline
NotFoundMessage ==
    \E b \in TailsOf(DerivedPath) :
        /\ IsBaseNameOf(b, DerivedPath)
        /\ OutputText = "not found: " \o b \o "\n"

DerivedBaseNameHasNewline ==
    \E b \in TailsOf(DerivedPath) : IsBaseNameOf(b, DerivedPath) /\ CountOf(b, "\n") > 0

-----------------------------------------------------------------------------
\* C1 (as stated): for a path ending with .tsx but not .stories.tsx whose
\* derived story path holds no regular file, main exits with 1 and standard
\* output is exactly one line, "not found: " followed by the base name of the
\* derived story path.
C1_Original ==
    (Done /\ IsComponentArg /\ ~RegularFileAt(DerivedPath)) =>
        /\ exit_code = <<1>>
        /\ NotFoundMessage
        /\ LineCount = 1

\* C1 (amended): for a path ending with .tsx but not .stories.tsx whose derived
\* story path holds no regular file, main exits with 1 and standard output is
\* exactly one print of "not found: " followed by the base name of the derived
\* story path and a newline; it is exactly one line whenever that base name
\* holds no newline character.
C1_NotFound ==
    (Done /\ IsComponentArg /\ ~RegularFileAt(DerivedPath)) =>
        /\ exit_code = <<1>>
        /\ Len(stdout) = 1
        /\ NotFoundMessage
        /\ ~DerivedBaseNameHasNewline => LineCount = 1

\* components/Card.tsx with components/Card.stories.tsx absent has printed
\* "not found: Card.stories.tsx".
C1_Witness ==
    /\ Done
    /\ HasPathArg
    /\ PathArg = "components/Card.tsx"
    /\ fs["components/Card.stories.tsx"] = "none"
    /\ OutputText = "not found: Card.stories.tsx\n"
    /\ exit_code = <<1>>

\* C2: for a path ending with .tsx but not .stories.tsx whose derived story
\* path holds a regular file, main exits with 0 and writes nothing.
C2_Found ==
    (Done /\ IsComponentArg /\ RegularFileAt(DerivedPath)) =>
        /\ exit_code = <<0>>
        /\ stdout = <<>>

C2_Witness ==
    /\ Done
    /\ HasPathArg
    /\ PathArg = "Button.tsx"
    /\ fs["Button.stories.tsx"] = "file"
    /\ exit_code = <<0>>
    /\ probes = <<"Button.stories.tsx">>

\* C3: for a path ending with .stories.tsx main exits with 0 and no output in
\* every filesystem state; the story check wins over the .tsx check, so neither
\* the path itself nor <stem>.stories.stories.tsx is looked at.
C3_StoryFile ==
    (Done /\ HasPathArg /\ EndsStories(PathArg)) =>
        /\ exit_code = <<0>>
        /\ stdout = <<>>
        /\ probes = <<>>

\* a story path that does not exist and has no story file of its own
C3_Witness ==
    /\ Done
    /\ HasPathArg
    /\ PathArg = "Button.stories.tsx"
    /\ fs["Button.stories.tsx"] = "none"
    /\ fs["Button.stories.stories.tsx"] = "none"
    /\ exit_code = <<0>>

\* C4: for a path that does not end with .tsx (the empty string and paths of
\* fewer than 4 characters included) main exits with 0 and no output, whatever
\* the filesystem holds.
C4_NotApplicable ==
    (Done /\ HasPathArg /\ ~EndsTsx(PathArg)) =>
        /\ exit_code = <<0>>
        /\ stdout = <<>>

\* the empty path, with nothing where the story file of a component would be
C4_Witness ==
    /\ Done
    /\ HasPathArg
    /\ PathArg = ""
    /\ fs[".stories.tsx"] = "none"
    /\ exit_code = <<0>>
    /\ stdout = <<>>

\* C5: with fewer than 2 entries in the argument list main prints exactly the
\* usage line and exits with 1, having read no path and asked the filesystem
\* nothing.
C5_Usage ==
    (Done /\ ~HasPathArg) =>
        /\ exit_code = <<1>>
        /\ stdout = <<"Usage: check-story-book-file-exists.py <file_path>\n">>
        /\ probes = <<>>
        /\ file_path = ""
        /\ story_path = ""

C5_Witness ==
    /\ Done
    /\ Len(argv) = 1
    /\ exit_code = <<1>>
    /\ Len(stdout) = 1

UsageOutcome ==
    /\ exit_code = <<1>>
    /\ OutputText = "Usage: check-story-book-file-exists.py <file_path>\n"

SuccessOutcome == exit_code = <<0>> /\ NoOutput

NotFoundOutcome == exit_code = <<1>> /\ StartsWith(OutputText, "not found: ")

C6_Outcome ==
    Done =>
        /\ exit_code \in {<<0>>, <<1>>}
        /\ Cardinality({o \in {"usage", "success", "not_found"} :
                \/ o = "usage" /\ UsageOutcome
                \/ o = "success" /\ SuccessOutcome
                \/ o = "not_found" /\ NotFoundOutcome}) = 1
        /\ exit_code = <<1>> <=>
                \/ ~HasPathArg
                \/ IsComponentArg /\ ~RegularFileAt(DerivedPath)
        /\ UsageOutcome <=> ~HasPathArg
        /\ NotFoundOutcome <=> (IsComponentArg /\ ~RegularFileAt(DerivedPath))

\* C6: every invocation terminates, in exactly one of the three outcomes usage
\* error, success and not-found failure, with exit code 0 or 1; the exit code
\* is 1 exactly when no path argument was given or the required story file is
\* missing.
C6_Terminates == []C6_Outcome /\ <>Done

\* a run that ended in the not-found failure
C6_Witness == Done /\ NotFoundOutcome /\ ~UsageOutcome /\ ~SuccessOutcome

\* C7: in the .tsx branch the candidate story path is the path with exactly
\* its last 4 characters removed and .stories.tsx appended; the removed
\* characters are .tsx, the prefix is kept as it is, the candidate is 8
\* characters longer and ends with .stories.tsx.
C7_Candidate ==
    (pc = "isfile" \/ probes # <<>>) =>
        LET n == Len(file_path) IN
        /\ n >= 4
        /\ SubSeq(file_path, n - 3, n) = ".tsx"
        /\ Len(story_path) = n + 8
        /\ SubSeq(story_path, 1, n - 4) = SubSeq(file_path, 1, n - 4)
        /\ SubSeq(story_path, n - 3, n + 8) = ".stories.tsx"

\* the candidate of a path in a directory keeps the directory part
C7_Witness ==
    /\ pc = "isfile"
    /\ file_path = "components/Card.tsx"
    /\ story_path = "components/Card.stories.tsx"

\* C8: the existence check succeeds only for a regular file: a directory (or
\* nothing) at the candidate path ends in the not-found failure, a symbolic
\* link resolving to a regular file ends in success.
C8_RegularFileOnly ==
    (Done /\ IsComponentArg) =>
        /\ fs[DerivedPath] \in {"dir", "none"} =>
                exit_code = <<1>> /\ StartsWith(OutputText, "not found: ")
        /\ fs[DerivedPath] = "link_file" => exit_code = <<0>> /\ NoOutput
        /\ exit_code = <<0>> => fs[DerivedPath] \in {"file", "link_file"}

\* a directory named like the story file
C8_Witness ==
    /\ Done
    /\ IsComponentArg
    /\ fs[DerivedPath] = "dir"
    /\ exit_code = <<1>>

CaseVariants ==
    {".TSX", ".TSx", ".TsX", ".Tsx", ".tSX", ".tSx", ".tsX"}

C10_OneCheck ==
    /\ Len(probes) <= 1
    /\ probes # <<>> => IsComponentArg /\ probes = <<DerivedPath>>

\* C10 (as stated): at most one existence check, on the derived story path and
\* only for a path ending with .tsx but not .stories.tsx; nothing is created,
\* modified or deleted; at most one line is written to standard output, and it
\* is written exactly when the exit code is 1.
C10_Original ==
    /\ [](/\ C10_OneCheck
          /\ LineCount <= 1
          /\ Done => (LineCount = 1 <=> exit_code = <<1>>))
    /\ [][fs' = fs]_vars

\* C10 (amended): at most one existence check, on the derived story path and
\* only for a path ending with .tsx but not .stories.tsx; nothing is created,
\* modified or deleted; at most one message is printed to standard output, and
\* it is printed exactly when the exit code is 1; the output is more than one
\* line only when the base name of the derived story path holds a newline.
C10_Frame ==
    /\ [](/\ C10_OneCheck
          /\ Len(stdout) <= 1
          /\ Done => (Len(stdout) = 1 <=> exit_code = <<1>>)
          /\ LineCount > 1 => (IsComponentArg /\ DerivedBaseNameHasNewline))
    /\ [][fs' = fs]_vars

\* a not-found run: one check, one message, the filesystem as it was
C10_Witness ==
    /\ Done
    /\ IsComponentArg
    /\ probes = <<DerivedPath>>
    /\ Len(stdout) = 1
    /\ fs[DerivedPath] = "none"

====
